---- MODULE Spec2Model ----
(***************************************************************************)
(* Model of the capability-probing compatibility layer of android-api-rs:  *)
(* CompatEnv::try_do and its try_* wrappers (android_api_util/src/lib.rs), *)
(* the feature detector and channel registration (android_notif/src/       *)
(* channel.rs), and the notification lifecycle / manager                     *)
(* (android_notif/src/notification.rs).                                    *)
(*                                                                         *)
(* The host runtime (the JVM behind JNIEnv) is the environment.  Its only  *)
(* state seen by this layer is the per-context pending-exception slot.     *)
(* Every operation of the layer is one action; the host's answers to the   *)
(* calls the operation issues are drawn from a "world" w: a script giving  *)
(* the outcome of the 1st, 2nd, ... ordinary call, the inspection call     *)
(* (if any) that errors, and the integer constants the host exposes.  The  *)
(* calls an operation issued are recorded, in order, in log.               *)
(***************************************************************************)
EXTENDS Integers, Sequences, FiniteSets, TLC

\* ------------------------------------------------------------------ bounds
NumIds == 2     \* distinct exception objects per exception class
MaxVal == 2     \* host integer constants range over 0..MaxVal
MaxAbsent == 2  \* optional activity flags a host lacks, at most

\* ------------------------------------------------------- host exceptions
\* The empty pending-exception slot (a null jthrowable).
NoExc == [cls |-> "null", id |-> 0]

\* The six handles resolved by CompatEnv::new.
CompatEnv ==
    [class_not_found_exception |-> "java/lang/ClassNotFoundException",
     no_such_field_exception   |-> "java/lang/NoSuchFieldException",
     no_such_method_exception  |-> "java/lang/NoSuchMethodException",
     no_class_def_found_error  |-> "java/lang/NoClassDefFoundError",
     no_such_field_error       |-> "java/lang/NoSuchFieldError",
     no_such_method_error      |-> "java/lang/NoSuchMethodError"]

\* No execution context: CompatEnv::new has not succeeded yet.
NoEnv ==
    [class_not_found_exception |-> "null",
     no_such_field_exception   |-> "null",
     no_such_method_exception  |-> "null",
     no_class_def_found_error  |-> "null",
     no_such_field_error       |-> "null",
     no_such_method_error      |-> "null"]

SignalClasses ==
    {CompatEnv.class_not_found_exception, CompatEnv.no_such_field_exception,
     CompatEnv.no_such_method_exception, CompatEnv.no_class_def_found_error,
     CompatEnv.no_such_field_error, CompatEnv.no_such_method_error}

\* Classes of the exceptions the host may raise: the six signal types, a
\* host-defined subclass of one of them, and an unrelated runtime fault.
ExcClasses == SignalClasses \cup {"vendor/NoSuchMethodErrorImpl", "java/lang/RuntimeException"}

\* The class itself and its superclasses among the signal types.
SuperClasses(c) ==
    IF c = "vendor/NoSuchMethodErrorImpl" THEN {c, CompatEnv.no_such_method_error} ELSE {c}

\* Exception objects: the id is the object's identity.
Exceptions == [cls : ExcClasses, id : 1..NumIds]

\* JNI IsInstanceOf: true for the class and for its subclasses.
InstanceOf(exc, class) == class \in SuperClasses(exc.cls)

\* ----------------------------------------------------------- values
\* jni::objects::JValue, and the unit / bool values of the layer's results.
JInt(i)    == [t |-> "int",  i |-> i, o |-> "",  b |-> FALSE]
JObject(o) == [t |-> "obj",  i |-> 0, o |-> o,   b |-> FALSE]
JVoid      == [t |-> "void", i |-> 0, o |-> "",  b |-> FALSE]
Bool(b)    == [t |-> "bool", i |-> 0, o |-> "",  b |-> b]

\* Result<T, Error> and Result<Option<T>, Error> / Option<Result<T, Error>>.
Ok(v)    == [kind |-> "Ok",   err |-> "", val |-> v]
Err(e)   == [kind |-> "Err",  err |-> e,  val |-> JVoid]
Some(v)  == [kind |-> "Some", err |-> "", val |-> v]
Absent   == [kind |-> "None", err |-> "", val |-> JVoid]

\* JValue::i and JValue::l.
JValueI(v) == IF v.t = "int" THEN Ok(v) ELSE Err("WrongJValueType")
JValueL(v) == IF v.t = "obj" THEN Ok(v) ELSE Err("WrongJValueType")

\* ------------------------------------------------------------- worlds
\* Errors other than Error::JavaException an ordinary call may return.
OtherErrors == {"NullPtr", "InvalidArgList"}

OkOut      == [kind |-> "ok",  exc |-> NoExc, err |-> ""]
ErrOut(e)  == [kind |-> "err", exc |-> NoExc, err |-> e]
ExcOut(x)  == [kind |-> "exc", exc |-> x,     err |-> "JavaException"]
BadOut     == {ErrOut(e) : e \in OtherErrors} \cup {ExcOut(x) : x \in Exceptions}

\* The inspection call that errors, if any (the nth is_instance_of test).
NoFault    == [call |-> "none", nth |-> 1]
InspFaults ==
    {NoFault} \cup
    {[call |-> c, nth |-> 1] : c \in {"exception_occurred", "exception_clear", "throw"}} \cup
    {[call |-> "is_instance_of", nth |-> n] : n \in 1..2}

Vals == 0..MaxVal

World(script, insp, sdk, o) == [script |-> script, insp |-> insp, sdk |-> sdk, o |-> o]

AllOk(len) == [i \in 1..len |-> OkOut]

\* Scripts of len ordinary calls in which exactly call k does not succeed.
FailAt(len, k, b) == [i \in 1..len |-> IF i = k THEN b ELSE OkOut]

\* Scripts in which call k raises an exception and a later call k2 does not
\* succeed either (k2 is only reached where the operation falls back).
FailTwice(len, k, x, k2, b) ==
    [i \in 1..len |-> IF i = k THEN ExcOut(x) ELSE IF i = k2 THEN b ELSE OkOut]

\* The scripts of an operation that issues at most len ordinary calls, of
\* which those at the positions probes go through try_do and those at the
\* positions fallbacks are followed by further calls when found Absent.  An
\* operation returns at the first call that does not succeed, except where
\* it falls back, and the inspection calls are only reached from a probe
\* whose call raised an exception, so these scripts produce every behaviour.
Scripts(len, probes, fallbacks) ==
    {World(AllOk(len), NoFault, 0, 0)} \cup
    {World(FailAt(len, k, b), NoFault, 0, 0) : k \in 1..len, b \in BadOut} \cup
    {World(FailAt(len, k, ExcOut(x)), f, 0, 0) :
        k \in probes, x \in Exceptions, f \in InspFaults \ {NoFault}} \cup
    UNION {{World(FailTwice(len, k, x, k2, b), NoFault, 0, 0) :
                x \in Exceptions, k2 \in (k + 1)..len, b \in BadOut} : k \in fallbacks}

\* A call returns Ok only with the slot empty afterwards (the bindings check
\* for a pending exception after every ordinary call), so an operation that
\* is started with an exception p still pending sees its first call fail.
\* What the host does with a call issued while p is pending is undefined:
\* the call fails with Error::JavaException, leaving p pending or raising
\* an exception of its own, which replaces p, or it fails with another
\* error.
Admissible(p, script) ==
    p = NoExc \/ script[1].kind \in {"exc", "err"}

\* ------------------------------------------------------------ state
VARIABLES
    pending,    \* the host's pending-exception slot of this context
    log,        \* host calls issued by the last operation, in order
    last,       \* the last operation: name, inputs, result, slot at its start
    previous_resources, \* ResourceManager::previous_resources (name -> id)
    compat_env, \* the execution context the caller holds (its six handles)
    FLAGS,      \* the static OnceCell<ActivityFlags> of activity_flags
    lifecycle,  \* of the caller's NotificationBuilder: "None" before it is created,
                \* "Created" from NotificationBuilder::new on, "Dispatched" once
                \* NotificationManager::notify has finalized and delivered it
    notification_manager, \* "Held" once NotificationManager::new has returned one
    resource_manager      \* "Held" once ResourceManager::new has returned one

vars == <<pending, log, last, previous_resources, compat_env, FLAGS, lifecycle,
          notification_manager, resource_manager>>

\* The host as threaded through one operation: slot, calls so far, number
\* of ordinary calls issued.
Start == [pending |-> pending, log |-> <<>>, n |-> 0]

InspectionCalls == {"exception_occurred", "exception_clear", "is_instance_of", "throw"}

\* One recorded call: its name and arguments (arg: the symbol or signature,
\* obj / num: an object handle and an integer passed along, exc: the
\* exception passed to or returned by an inspection call), whether the slot
\* held an exception when it was issued, its outcome (res: "ok", "err",
\* "exc" for a raised exception, "true" / "false" for an instance test; ret:
\* the Result handed back) and the slot after it.
Args(arg, obj, num) == [arg |-> arg, obj |-> obj, num |-> num]
A(arg) == Args(arg, "", 0)

Entry(h, call, args, exc, res, ret, after) ==
    [call |-> call, arg |-> args.arg, obj |-> args.obj, num |-> args.num,
     exc |-> exc, pend |-> h.pending # NoExc, res |-> res, ret |-> ret, after |-> after]

\* An ordinary cross-boundary call (find_class, get_static_field,
\* call_method, new_object, new_string, ...): the host answers with the next
\* outcome of the script; an exception outcome fills the pending slot and
\* the call returns Error::JavaException.
HostCall(h, w, call, args, okval) ==
    LET k     == h.n + 1
        out   == IF k <= Len(w.script) THEN w.script[k] ELSE OkOut
        after == IF out.kind = "exc" THEN out.exc ELSE h.pending
        ret   == IF out.kind = "ok" THEN Ok(okval) ELSE Err(out.err)
    IN  [h |-> [pending |-> after,
                log |-> Append(h.log, Entry(h, call, args, NoExc, out.kind, ret, after)),
                n |-> k],
         r |-> ret]

NthCall(h, call) == Cardinality({i \in DOMAIN h.log : h.log[i].call = call}) + 1

Faulty(h, w, call) == w.insp.call = call /\ w.insp.nth = NthCall(h, call)

\* JNIEnv::exception_occurred: the pending exception object.
ExceptionOccurred(h, w) ==
    IF Faulty(h, w, "exception_occurred")
    THEN [h |-> [h EXCEPT !.log = Append(@, Entry(h, "exception_occurred", A(""), NoExc, "err", Err("ExceptionOccurredFailed"), h.pending))],
          r |-> Err("ExceptionOccurredFailed"), exc |-> NoExc]
    ELSE [h |-> [h EXCEPT !.log = Append(@, Entry(h, "exception_occurred", A(""), h.pending, "ok", Ok(JVoid), h.pending))],
          r |-> Ok(JVoid), exc |-> h.pending]

\* JNIEnv::exception_clear: empties the slot.
ExceptionClear(h, w) ==
    IF Faulty(h, w, "exception_clear")
    THEN [h |-> [h EXCEPT !.log = Append(@, Entry(h, "exception_clear", A(""), NoExc, "err", Err("ExceptionClearFailed"), h.pending))],
          r |-> Err("ExceptionClearFailed")]
    ELSE [h |-> [h EXCEPT !.log = Append(@, Entry(h, "exception_clear", A(""), NoExc, "ok", Ok(JVoid), NoExc)),
                          !.pending = NoExc],
          r |-> Ok(JVoid)]

\* JNIEnv::is_instance_of.
IsInstanceOf(h, w, exc, class) ==
    IF Faulty(h, w, "is_instance_of")
    THEN [h |-> [h EXCEPT !.log = Append(@, Entry(h, "is_instance_of", A(class), exc, "err", Err("IsInstanceOfFailed"), h.pending))],
          r |-> Err("IsInstanceOfFailed")]
    ELSE [h |-> [h EXCEPT !.log = Append(@, Entry(h, "is_instance_of", A(class), exc,
                                    IF InstanceOf(exc, class) THEN "true" ELSE "false",
                                    Ok(Bool(InstanceOf(exc, class))), h.pending))],
          r |-> Ok(Bool(InstanceOf(exc, class)))]

\* JNIEnv::throw: makes exc the pending exception.
Throw(h, w, exc) ==
    IF Faulty(h, w, "throw")
    THEN [h |-> [h EXCEPT !.log = Append(@, Entry(h, "throw", A(""), exc, "err", Err("ThrowFailed"), h.pending))],
          r |-> Err("ThrowFailed")]
    ELSE [h |-> [h EXCEPT !.log = Append(@, Entry(h, "throw", A(""), exc, "ok", Ok(JVoid), exc)),
                          !.pending = exc],
          r |-> Ok(JVoid)]

\* ------------------------------------------------------- sequencing
\* let v = x; ...: Let([v \in {x} |-> e]) is e with v standing for the
\* outcome of the step x, which is carried out once.
Let(f) == CHOOSE r \in UNION {{g[v] : v \in DOMAIN g} : g \in {f}} : TRUE

\* The ? operator on a failed step x: return its error.
Propagate(x) == [h |-> x.h, r |-> Err(x.r.err)]

\* ------------------------------------------------------- CompatEnv::new
\* env.find_class(s): a plain class lookup; the handle stands for the class.
FindClass(h, w, s) == HostCall(h, w, "find_class", A(s), JObject(s))

\* A failed lookup in CompatEnv::new: the error is returned, no context.
NoContext(x) == [h |-> x.h, r |-> Err(x.r.err), env |-> NoEnv]

\* Variant of CompatEnv::new that looks the three Error types up without
\* the ? operator: a failure there is not returned and the context is
\* built all the same.
CompatEnvNewLenient(h, w) ==
    Let([class \in {FindClass(h, w, "java/lang/ClassNotFoundException")} |->
    IF class.r.kind = "Err" THEN NoContext(class) ELSE
    Let([field \in {FindClass(class.h, w, "java/lang/NoSuchFieldException")} |->
    IF field.r.kind = "Err" THEN NoContext(field) ELSE
    Let([method \in {FindClass(field.h, w, "java/lang/NoSuchMethodException")} |->
    IF method.r.kind = "Err" THEN NoContext(method) ELSE
    Let([class_err \in {FindClass(method.h, w, "java/lang/NoClassDefFoundError")} |->
    Let([field_err \in {FindClass(class_err.h, w, "java/lang/NoSuchFieldError")} |->
    Let([method_err \in {FindClass(field_err.h, w, "java/lang/NoSuchMethodError")} |->
    [h |-> method_err.h, r |-> Ok(JVoid),
     env |-> [class_not_found_exception |-> class.r.val.o,
              no_such_field_exception   |-> field.r.val.o,
              no_such_method_exception  |-> method.r.val.o,
              no_class_def_found_error  |-> class_err.r.val.o,
              no_such_field_error       |-> field_err.r.val.o,
              no_such_method_error      |-> method_err.r.val.o]]])])])])])])

\* CompatEnv::new: six class lookups, each followed by ?, then the struct;
\* the context is returned beside the result.
CompatEnvNew(h, w) ==
    Let([class \in {FindClass(h, w, "java/lang/ClassNotFoundException")} |->
    IF class.r.kind = "Err" THEN NoContext(class) ELSE
    Let([field \in {FindClass(class.h, w, "java/lang/NoSuchFieldException")} |->
    IF field.r.kind = "Err" THEN NoContext(field) ELSE
    Let([method \in {FindClass(field.h, w, "java/lang/NoSuchMethodException")} |->
    IF method.r.kind = "Err" THEN NoContext(method) ELSE
    Let([class_err \in {FindClass(method.h, w, "java/lang/NoClassDefFoundError")} |->
    IF class_err.r.kind = "Err" THEN NoContext(class_err) ELSE
    Let([field_err \in {FindClass(class_err.h, w, "java/lang/NoSuchFieldError")} |->
    IF field_err.r.kind = "Err" THEN NoContext(field_err) ELSE
    Let([method_err \in {FindClass(field_err.h, w, "java/lang/NoSuchMethodError")} |->
    IF method_err.r.kind = "Err" THEN NoContext(method_err) ELSE
    [h |-> method_err.h, r |-> Ok(JVoid),
     env |-> [class_not_found_exception |-> class.r.val.o,
              no_such_field_exception   |-> field.r.val.o,
              no_such_method_exception  |-> method.r.val.o,
              no_class_def_found_error  |-> class_err.r.val.o,
              no_such_field_error       |-> field_err.r.val.o,
              no_such_method_error      |-> method_err.r.val.o]]])])])])])])

\* ------------------------------------------------------- CompatEnv::try_do
\* Variant of IgnoreLoop that tests the ignore set from its last entry to
\* its first.
RECURSIVE IgnoreLoopReversed(_, _, _, _, _)
IgnoreLoopReversed(h, w, exception, ignore, i) ==
    IF i > Len(ignore) THEN [h |-> h, r |-> Ok(Bool(FALSE))]
    ELSE Let([t \in {IsInstanceOf(h, w, exception, ignore[Len(ignore) + 1 - i])} |->
         IF t.r.kind = "Err" THEN Propagate(t)
         ELSE IF t.r.val.b THEN [h |-> t.h, r |-> Ok(Bool(TRUE))]
         ELSE IgnoreLoopReversed(t.h, w, exception, ignore, i + 1)])

\* Variant of IgnoreLoop that tests the first entry of the ignore set only.
IgnoreLoopFirstOnly(h, w, exception, ignore, i) ==
    IF i > 1 \/ i > Len(ignore) THEN [h |-> h, r |-> Ok(Bool(FALSE))]
    ELSE Let([t \in {IsInstanceOf(h, w, exception, ignore[i])} |->
         IF t.r.kind = "Err" THEN Propagate(t)
         ELSE [h |-> t.h, r |-> Ok(Bool(t.r.val.b))]])

\* for i in ignore { if is_instance_of(exception, i)? { return Ok(None) } }
RECURSIVE IgnoreLoop(_, _, _, _, _)
IgnoreLoop(h, w, exception, ignore, i) ==
    IF i > Len(ignore) THEN [h |-> h, r |-> Ok(Bool(FALSE))]
    ELSE Let([t \in {IsInstanceOf(h, w, exception, ignore[i])} |->
         IF t.r.kind = "Err" THEN Propagate(t)
         ELSE IF t.r.val.b THEN [h |-> t.h, r |-> Ok(Bool(TRUE))]
         ELSE IgnoreLoop(t.h, w, exception, ignore, i + 1)])

\* Variant of Rethrow that raises a new exception object of the same class.
RethrowFresh(h, w, exception) ==
    Let([t \in {Throw(h, w, [cls |-> exception.cls, id |-> NumIds + 1])} |->
    IF t.r.kind = "Err" THEN Propagate(t)
    ELSE [h |-> t.h, r |-> Err("JavaException")]])

\* self.env.throw(exception)?; Err(Error::JavaException)
Rethrow(h, w, exception) ==
    Let([t \in {Throw(h, w, exception)} |->
    IF t.r.kind = "Err" THEN Propagate(t)
    ELSE [h |-> t.h, r |-> Err("JavaException")]])

\* Variant of OnJavaException that re-raises the exception when an
\* instance test errors, before returning that error.
OnJavaExceptionRethrowsOnError(h, w, ignore) ==
    Let([occ \in {ExceptionOccurred(h, w)} |->
    IF occ.r.kind = "Err" THEN Propagate(occ) ELSE
    Let([clr \in {ExceptionClear(occ.h, w)} |->
    IF clr.r.kind = "Err" THEN Propagate(clr) ELSE
    Let([m \in {IgnoreLoop(clr.h, w, occ.exc, ignore, 1)} |->
    IF m.r.kind = "Err"
    THEN Let([t \in {Throw(m.h, w, occ.exc)} |-> [h |-> t.h, r |-> Err(m.r.err)]])
    ELSE IF m.r.val.b THEN [h |-> m.h, r |-> Absent]
    ELSE Rethrow(m.h, w, occ.exc)])])])

\* Variant of OnJavaException that never clears the pending exception.
OnJavaExceptionNoClear(h, w, ignore) ==
    Let([occ \in {ExceptionOccurred(h, w)} |->
    IF occ.r.kind = "Err" THEN Propagate(occ) ELSE
    Let([m \in {IgnoreLoop(occ.h, w, occ.exc, ignore, 1)} |->
    IF m.r.kind = "Err" THEN Propagate(m)
    ELSE IF m.r.val.b THEN [h |-> m.h, r |-> Absent]
    ELSE Rethrow(m.h, w, occ.exc)])])

\* Variant of OnJavaException that classifies first and clears afterwards.
OnJavaExceptionLateClear(h, w, ignore) ==
    Let([occ \in {ExceptionOccurred(h, w)} |->
    IF occ.r.kind = "Err" THEN Propagate(occ) ELSE
    Let([m \in {IgnoreLoop(occ.h, w, occ.exc, ignore, 1)} |->
    IF m.r.kind = "Err" THEN Propagate(m) ELSE
    Let([clr \in {ExceptionClear(m.h, w)} |->
    IF clr.r.kind = "Err" THEN Propagate(clr)
    ELSE IF m.r.val.b THEN [h |-> clr.h, r |-> Absent]
    ELSE Rethrow(clr.h, w, occ.exc)])])])

\* The Err(Error::JavaException) arm.
OnJavaException(h, w, ignore) ==
    Let([occ \in {ExceptionOccurred(h, w)} |->
    IF occ.r.kind = "Err" THEN Propagate(occ) ELSE
    Let([clr \in {ExceptionClear(occ.h, w)} |->
    IF clr.r.kind = "Err" THEN Propagate(clr) ELSE
    Let([m \in {IgnoreLoop(clr.h, w, occ.exc, ignore, 1)} |->
    IF m.r.kind = "Err" THEN Propagate(m)
    ELSE IF m.r.val.b THEN [h |-> m.h, r |-> Absent]
    ELSE Rethrow(m.h, w, occ.exc)])])])

\* Variant of TryDo that clears the host's slot on every error.
TryDoClearsAlways(w, val, ignore) ==
    IF val.r.kind = "Ok" THEN [h |-> val.h, r |-> Some(val.r.val)]
    ELSE IF val.r.err = "JavaException" THEN OnJavaException(val.h, w, ignore)
    ELSE [h |-> ExceptionClear(val.h, w).h, r |-> Err(val.r.err)]

\* try_do applied to the outcome val of the operation f (val.r) and the
\* host as f left it (val.h).
TryDo(w, val, ignore) ==
    IF val.r.kind = "Ok" THEN [h |-> val.h, r |-> Some(val.r.val)]
    ELSE IF val.r.err = "JavaException" THEN OnJavaException(val.h, w, ignore)
    ELSE Propagate(val)

\* ------------------------------------------------------ try_* wrappers
\* The ignore sets are read from the context (self.class_not_found_exception, ...).
ClassIgnore  == <<compat_env.class_not_found_exception, compat_env.no_class_def_found_error>>
FieldIgnore  == <<compat_env.no_such_field_exception, compat_env.no_such_field_error>>
MethodIgnore == <<compat_env.no_such_method_exception, compat_env.no_such_method_error>>

\* Variant of try_find_class that ignores the field-not-found signals.
TryFindClassFieldIgnore(h, w, s) ==
    Let([val \in {HostCall(h, w, "find_class", A(s), JObject(s))} |->
    TryDo(w, val, FieldIgnore)])

TryFindClass(h, w, s) ==
    Let([val \in {HostCall(h, w, "find_class", A(s), JObject(s))} |->
    TryDo(w, val, ClassIgnore)])

TryGetField(h, w, name, okval) ==
    Let([val \in {HostCall(h, w, "get_field", A(name), okval)} |->
    TryDo(w, val, FieldIgnore)])

TryGetStaticField(h, w, field, okval) ==
    Let([val \in {HostCall(h, w, "get_static_field", A(field), okval)} |->
    TryDo(w, val, FieldIgnore)])

TryCallMethod(h, w, name, okval) ==
    Let([val \in {HostCall(h, w, "call_method", A(name), okval)} |->
    TryDo(w, val, MethodIgnore)])

TryCallStaticMethod(h, w, name, okval) ==
    Let([val \in {HostCall(h, w, "call_static_method", A(name), okval)} |->
    TryDo(w, val, MethodIgnore)])

TryNewObject(h, w, ctor_sig, okval) ==
    Let([val \in {HostCall(h, w, "new_object", A(ctor_sig), okval)} |->
    TryDo(w, val, MethodIgnore)])

\* ------------------------------------------------------- helpers
\* Result<Option<T>, E>::transpose: Ok(None) -> None, Ok(Some(x)) -> Some(Ok(x)),
\* Err(e) -> Some(Err(e)).
Transpose(r) ==
    IF r.kind = "Some" THEN Ok(r.val)
    ELSE IF r.kind = "None" THEN Absent
    ELSE Err(r.err)

\* A straight line of ordinary calls, each followed by ?: the calls are
\* issued in order up to the first that fails; Ok(()) when none does.
Step(call, arg) == [call |-> call, args |-> A(arg)]

RECURSIVE RunCalls(_, _, _, _)
RunCalls(h, w, calls, i) ==
    IF i > Len(calls) THEN [h |-> h, r |-> Ok(JVoid)]
    ELSE Let([c \in {HostCall(h, w, calls[i].call, calls[i].args, JObject(""))} |->
         IF c.r.kind = "Err" THEN Propagate(c)
         ELSE RunCalls(c.h, w, calls, i + 1)])

\* ------------------------------------------------------------ channel.rs
Importances == {"Default", "High", "Low", "Max", "Min", "None", "Unspecified"}

ImportanceInternalName(i) ==
    CASE i = "Default"     -> "IMPORTANCE_DEFAULT"
      [] i = "High"        -> "IMPORTANCE_HIGH"
      [] i = "Low"         -> "IMPORTANCE_LOW"
      [] i = "Max"         -> "IMPORTANCE_MAX"
      [] i = "Min"         -> "IMPORTANCE_MIN"
      [] i = "None"        -> "IMPORTANCE_NONE"
      [] i = "Unspecified" -> "IMPORTANCE_UNSPECIFIED"

\* Importance::internal_value, as the calls it issues.
ImportanceInternalValue(i) ==
    <<Step("find_class", "android/app/NotificationManager"),
      Step("get_static_field", ImportanceInternalName(i))>>

\* Importance::internal_value called on its own: the two calls, each
\* followed by ?, and the constant the host holds (w.o) converted with
\* JValue::i.
InternalValue(h, w, self) ==
    Let([value \in {RunCalls(h, w, ImportanceInternalValue(self), 1)} |->
    IF value.r.kind = "Err" THEN Propagate(value)
    ELSE [h |-> value.h, r |-> JValueI(JInt(w.o))]])

\* Variant of CompareVersion that demands a running version strictly above
\* the threshold.
CompareVersionStrict(o_version, version_value) ==
    IF o_version.kind = "None" THEN Ok(Bool(FALSE))
    ELSE LET x == JValueI(o_version.val) IN
         IF x.kind = "Err" THEN Err(x.err)
         ELSE Ok(Bool(version_value.i > x.val.i))

\* The last statement of notification_channel_available: o_version mapped
\* through JValue::i and compared with version_value, false when None.
CompareVersion(o_version, version_value) ==
    IF o_version.kind = "None" THEN Ok(Bool(FALSE))
    ELSE LET x == JValueI(o_version.val) IN
         IF x.kind = "Err" THEN Err(x.err)
         ELSE Ok(Bool(version_value.i >= x.val.i))

\* Variant of notification_channel_available that answers false when the
\* threshold probe fails.
NotificationChannelAvailableSwallows(h, w) ==
    Let([version_class \in {HostCall(h, w, "find_class", A("android/os/Build$VERSION"),
                  JObject("android/os/Build$VERSION"))} |->
    IF version_class.r.kind = "Err" THEN Propagate(version_class) ELSE
    Let([version_codes \in {TryFindClass(version_class.h, w, "android/os/Build$VERSION_CODES")} |->
    IF version_codes.r.kind = "Err" THEN Propagate(version_codes) ELSE
    IF version_codes.r.kind = "None" THEN [h |-> version_codes.h, r |-> Ok(Bool(FALSE))] ELSE
    Let([version_value \in {TryGetStaticField(version_codes.h, w, "SDK_INT", JInt(w.sdk))} |->
    IF version_value.r.kind = "Err" THEN Propagate(version_value) ELSE
    IF version_value.r.kind = "None" THEN [h |-> version_value.h, r |-> Ok(Bool(FALSE))] ELSE
    LET x == JValueI(version_value.r.val) IN
    IF x.kind = "Err" THEN [h |-> version_value.h, r |-> Err(x.err)] ELSE
    Let([o_version \in {TryGetStaticField(version_value.h, w, "O", JInt(w.o))} |->
    IF o_version.r.kind = "Err" THEN [h |-> o_version.h, r |-> Ok(Bool(FALSE))]
    ELSE [h |-> o_version.h, r |-> CompareVersion(o_version.r, x.val)]])])])])

\* Variant of notification_channel_available without the early return for
\* a missing version-codes class: it goes on to read SDK_INT.
NotificationChannelAvailableNoReturn(h, w) ==
    Let([version_class \in {HostCall(h, w, "find_class", A("android/os/Build$VERSION"),
                  JObject("android/os/Build$VERSION"))} |->
    IF version_class.r.kind = "Err" THEN Propagate(version_class) ELSE
    Let([version_codes \in {TryFindClass(version_class.h, w, "android/os/Build$VERSION_CODES")} |->
    IF version_codes.r.kind = "Err" THEN Propagate(version_codes) ELSE
    Let([version_value \in {TryGetStaticField(version_codes.h, w, "SDK_INT", JInt(w.sdk))} |->
    IF version_value.r.kind = "Err" THEN Propagate(version_value) ELSE
    IF version_value.r.kind = "None" \/ version_codes.r.kind = "None"
    THEN [h |-> version_value.h, r |-> Ok(Bool(FALSE))] ELSE
    LET x == JValueI(version_value.r.val) IN
    IF x.kind = "Err" THEN [h |-> version_value.h, r |-> Err(x.err)] ELSE
    Let([o_version \in {TryGetStaticField(version_value.h, w, "O", JInt(w.o))} |->
    IF o_version.r.kind = "Err" THEN Propagate(o_version)
    ELSE [h |-> o_version.h, r |-> CompareVersion(o_version.r, x.val)]])])])])

NotificationChannelAvailable(h, w) ==
    Let([version_class \in {HostCall(h, w, "find_class", A("android/os/Build$VERSION"),
                  JObject("android/os/Build$VERSION"))} |->
    IF version_class.r.kind = "Err" THEN Propagate(version_class) ELSE
    Let([version_codes \in {TryFindClass(version_class.h, w, "android/os/Build$VERSION_CODES")} |->
    IF version_codes.r.kind = "Err" THEN Propagate(version_codes) ELSE
    IF version_codes.r.kind = "None" THEN [h |-> version_codes.h, r |-> Ok(Bool(FALSE))] ELSE
    Let([version_value \in {TryGetStaticField(version_codes.h, w, "SDK_INT", JInt(w.sdk))} |->
    IF version_value.r.kind = "Err" THEN Propagate(version_value) ELSE
    IF version_value.r.kind = "None" THEN [h |-> version_value.h, r |-> Ok(Bool(FALSE))] ELSE
    LET x == JValueI(version_value.r.val) IN
    IF x.kind = "Err" THEN [h |-> version_value.h, r |-> Err(x.err)] ELSE
    Let([o_version \in {TryGetStaticField(version_value.h, w, "O", JInt(w.o))} |->
    IF o_version.r.kind = "Err" THEN Propagate(o_version)
    ELSE [h |-> o_version.h, r |-> CompareVersion(o_version.r, x.val)]])])])])

\* The registration part of create_notification_channel, as the calls it
\* issues for a descriptor with or without a description.
RegistrationCalls(channel_cfg) ==
    <<Step("new_string", "name")>>
    \o (IF channel_cfg.desc THEN <<Step("new_string", "desc")>> ELSE <<>>)
    \o ImportanceInternalValue(channel_cfg.importance)
    \o <<Step("new_string", "id"),
         Step("new_object", "android/app/NotificationChannel")>>
    \o (IF channel_cfg.desc THEN <<Step("call_method", "setDescription")>> ELSE <<>>)
    \o <<Step("get_static_field", "NOTIFICATION_SERVICE"),
         Step("call_method", "getSystemService"),
         Step("call_method", "createNotificationChannel")>>

\* Variant of create_notification_channel that registers the channel
\* whatever the detector answers.
CreateNotificationChannelAlways(h, w, channel_cfg) ==
    Let([available \in {NotificationChannelAvailable(h, w)} |->
    IF available.r.kind = "Err" THEN Propagate(available)
    ELSE Let([calls \in {RegistrationCalls(channel_cfg)} |->
         RunCalls(available.h, w, calls, 1)])])

CreateNotificationChannel(h, w, channel_cfg) ==
    Let([available \in {NotificationChannelAvailable(h, w)} |->
    IF available.r.kind = "Err" THEN Propagate(available)
    ELSE IF ~available.r.val.b THEN [h |-> available.h, r |-> Ok(JVoid)]
    ELSE Let([calls \in {RegistrationCalls(channel_cfg)} |->
         RunCalls(available.h, w, calls, 1)])])

\* ------------------------------------------------------- notification.rs
CtorRich   == "(Landroid/content/Context;Ljava/lang/String;)V"
CtorSimple == "(Landroid/content/Context;)V"

\* Variant of NotificationBuilder::new that falls back to the simpler
\* constructor whenever the richer one did not succeed.
NotificationBuilderNewFallbackOnErr(h, w) ==
    Let([class \in {HostCall(h, w, "find_class", A("android/app/Notification$Builder"),
                  JObject("android/app/Notification$Builder"))} |->
    IF class.r.kind = "Err" THEN Propagate(class) ELSE
    Let([id \in {HostCall(class.h, w, "new_string", A("channel_id"), JObject("channel_id"))} |->
    IF id.r.kind = "Err" THEN Propagate(id) ELSE
    Let([rich \in {TryNewObject(id.h, w, CtorRich, JObject("builder_rich"))} |->
    Let([builder \in {IF Transpose(rich.r).kind # "Ok"
         THEN HostCall(rich.h, w, "new_object", A(CtorSimple), JObject("builder_simple"))
         ELSE [h |-> rich.h, r |-> Transpose(rich.r)]} |->
    IF builder.r.kind = "Err" THEN Propagate(builder)
    ELSE [h |-> builder.h, r |-> Ok(builder.r.val)]])])])])

\* NotificationBuilder::new: the richer constructor through the probe, the
\* simpler one when the probe reports None.
NotificationBuilderNew(h, w) ==
    Let([class \in {HostCall(h, w, "find_class", A("android/app/Notification$Builder"),
                  JObject("android/app/Notification$Builder"))} |->
    IF class.r.kind = "Err" THEN Propagate(class) ELSE
    Let([id \in {HostCall(class.h, w, "new_string", A("channel_id"), JObject("channel_id"))} |->
    IF id.r.kind = "Err" THEN Propagate(id) ELSE
    Let([rich \in {TryNewObject(id.h, w, CtorRich, JObject("builder_rich"))} |->
    Let([builder \in {IF Transpose(rich.r).kind = "None"
         THEN HostCall(rich.h, w, "new_object", A(CtorSimple), JObject("builder_simple"))
         ELSE [h |-> rich.h, r |-> Transpose(rich.r)]} |->
    IF builder.r.kind = "Err" THEN Propagate(builder)
    ELSE [h |-> builder.h, r |-> Ok(builder.r.val)]])])])])

\* The five setters: the argument string is created first where there is
\* one, then the setter method is called; the builder itself is returned.
Setters == {"setContentIntent", "setContentTitle", "setContentText", "setAutoCancel", "setSmallIcon"}

SetterCalls(m) ==
    (IF m \in {"setContentTitle", "setContentText"} THEN <<Step("new_string", m)>> ELSE <<>>)
    \o <<Step("call_method", m)>>

Set(h, w, m, self) ==
    Let([c \in {RunCalls(h, w, SetterCalls(m), 1)} |->
    IF c.r.kind = "Err" THEN c ELSE [h |-> c.h, r |-> Ok(JObject(self))]])

\* Variant of NotificationBuilder::build that calls build() a second time
\* when the probe reports None.
BuildRetriesRich(h, w) ==
    Let([rich \in {TryCallMethod(h, w, "build", JObject("notification_build"))} |->
    Let([x \in {IF Transpose(rich.r).kind = "None"
         THEN HostCall(rich.h, w, "call_method", A("build"), JObject("notification_build"))
         ELSE [h |-> rich.h, r |-> Transpose(rich.r)]} |->
    IF x.r.kind = "Err" THEN Propagate(x)
    ELSE [h |-> x.h, r |-> JValueL(x.r.val)]])])

\* NotificationBuilder::build: build() through the probe, getNotification()
\* when the probe reports None; the value is converted with JValue::l.
Build(h, w) ==
    Let([rich \in {TryCallMethod(h, w, "build", JObject("notification_build"))} |->
    Let([x \in {IF Transpose(rich.r).kind = "None"
         THEN HostCall(rich.h, w, "call_method", A("getNotification"),
                       JObject("notification_get"))
         ELSE [h |-> rich.h, r |-> Transpose(rich.r)]} |->
    IF x.r.kind = "Err" THEN Propagate(x)
    ELSE [h |-> x.h, r |-> JValueL(x.r.val)]])])

\* Variant of NotificationManager::notify that issues the delivery call
\* even when the finalize step failed, and then returns that failure.
NotifyDeliversOnFailure(h, w, id) ==
    Let([notif_obj \in {Build(h, w)} |->
    Let([c \in {HostCall(notif_obj.h, w, "call_method",
                         Args("notify", notif_obj.r.val.o, id), JVoid)} |->
    IF notif_obj.r.kind = "Err" THEN [h |-> c.h, r |-> Err(notif_obj.r.err)]
    ELSE IF c.r.kind = "Err" THEN Propagate(c) ELSE [h |-> c.h, r |-> Ok(JVoid)]])])

\* Variant of NotificationManager::notify that delivers under the id 0
\* whatever id the caller passed.
NotifyFixedId(h, w, id) ==
    Let([notif_obj \in {Build(h, w)} |->
    IF notif_obj.r.kind = "Err" THEN Propagate(notif_obj) ELSE
    Let([c \in {HostCall(notif_obj.h, w, "call_method", Args("notify", notif_obj.r.val.o, 0), JVoid)} |->
    IF c.r.kind = "Err" THEN Propagate(c) ELSE [h |-> c.h, r |-> Ok(JVoid)]])])

\* NotificationManager::notify.
Notify(h, w, id) ==
    Let([notif_obj \in {Build(h, w)} |->
    IF notif_obj.r.kind = "Err" THEN Propagate(notif_obj) ELSE
    Let([c \in {HostCall(notif_obj.h, w, "call_method", Args("notify", notif_obj.r.val.o, id), JVoid)} |->
    IF c.r.kind = "Err" THEN Propagate(c) ELSE [h |-> c.h, r |-> Ok(JVoid)]])])

\* NotificationManager::new.
NotificationManagerNew(h, w) ==
    RunCalls(h, w, <<Step("get_static_field", "NOTIFICATION_SERVICE"),
                     Step("call_method", "getSystemService")>>, 1)

\* create_intent and pending_intent.
CreateIntent(h, w) ==
    RunCalls(h, w, <<Step("find_class", "android/content/Intent"),
                     Step("get_object_class", "context"),
                     Step("new_object", "android/content/Intent"),
                     Step("call_method", "setFlags")>>, 1)

PendingIntent(h, w) ==
    RunCalls(h, w, <<Step("find_class", "android/app/PendingIntent"),
                     Step("call_static_method", "getActivity")>>, 1)

\* ------------------------------------------- notification.rs: activity flags
\* The fields of ActivityFlags in the order ActivityFlagLoader::load fills
\* them: the field, the constant it is read from, and whether it is read
\* with load_yes (a jint, "always present") or with load (an Option<jint>).
Flag(field, name, required) == [field |-> field, name |-> name, required |-> required]

FlagFields ==
    <<Flag("brought_to_front",      "FLAG_ACTIVITY_BROUGHT_TO_FRONT", TRUE),
      Flag("clear_task",            "FLAG_ACTIVITY_CLEAR_TASK", FALSE),
      Flag("clear_top",             "FLAG_ACTIVITY_CLEAR_TOP", TRUE),
      Flag("clear_when_task_reset", "FLAG_ACTIVITY_CLEAR_WHEN_TASK_RESET", FALSE),
      Flag("exclude_from_recents",  "FLAG_ACTIVITY_EXCLUDE_FROM_RECENTS", TRUE),
      Flag("forward_result",        "FLAG_ACTIVITY_FORWARD_RESULT", TRUE),
      Flag("launched_from_history", "FLAG_ACTIVITY_LAUNCHED_FROM_HISTORY", TRUE),
      Flag("launch_adjacent",       "FLAG_ACTIVITY_LAUNCH_ADJACENT", FALSE),
      Flag("match_external",        "FLAG_ACTIVITY_MATCH_EXTERNAL", FALSE),
      Flag("multiple_task",         "FLAG_ACTIVITY_MULTIPLE_TASK", TRUE),
      Flag("new_document",          "FLAG_ACTIVITY_NEW_DOCUMENT", FALSE),
      Flag("new_task",              "FLAG_ACTIVITY_NEW_TASK", TRUE),
      Flag("no_animation",          "FLAG_ACTIVITY_NO_ANIMATION", FALSE),
      Flag("no_history",            "FLAG_ACTIVITY_NO_HISTORY", TRUE),
      Flag("no_user_action",        "FLAG_ACTIVITY_NO_USER_ACTION", FALSE),
      Flag("previous_is_top",       "FLAG_ACTIVITY_PREVIOUS_IS_TOP", TRUE),
      Flag("reorder_to_front",      "FLAG_ACTIVITY_REORDER_TO_FRONT", FALSE),
      Flag("require_default",       "FLAG_ACTIVITY_REQUIRE_DEFAULT", FALSE),
      Flag("require_non_browser",   "FLAG_ACTIVITY_REQUIRE_NON_BROWSER", FALSE),
      Flag("reset_task_if_needed",  "FLAG_ACTIVITY_RESET_TASK_IF_NEEDED", TRUE),
      Flag("retain_in_recents",     "FLAG_ACTIVITY_RETAIN_IN_RECENTS", FALSE),
      Flag("single_top",            "FLAG_ACTIVITY_SINGLE_TOP", FALSE),
      Flag("task_on_home",          "FLAG_ACTIVITY_TASK_ON_HOME", FALSE)>>

FlagNames == {FlagFields[i].field : i \in DOMAIN FlagFields}

\* The value the host has for the i-th constant.
FlagValue(i) == i

\* FLAGS before it is initialised, and the struct before its fields are set.
NoFlags  == [f \in {} |-> Absent]
EmptyBag == [f \in FlagNames |-> Absent]

\* load(name): the probe's outcome with the value converted by JValue::i;
\* Some(v), None or Err(e).
Load(h, w, name, value) ==
    Let([x \in {TryGetStaticField(h, w, name, JInt(value))} |->
    IF x.r.kind # "Some" THEN x
    ELSE LET v == JValueI(x.r.val) IN
         IF v.kind = "Err" THEN [h |-> x.h, r |-> v] ELSE [h |-> x.h, r |-> Some(v.val)]])

\* Variant of load_yes that takes an absent constant for the value 0.
LoadYesDefault(h, w, name, value) ==
    Let([x \in {Load(h, w, name, value)} |->
    IF x.r.kind = "None" THEN [h |-> x.h, r |-> Some(JInt(0))] ELSE x])

\* load_yes(name): load(name)?.ok_or_else(|| Error::FieldNotFound { .. }).
LoadYes(h, w, name, value) ==
    Let([x \in {Load(h, w, name, value)} |->
    IF x.r.kind = "None" THEN [h |-> x.h, r |-> Err("FieldNotFound")] ELSE x])

\* One field initialiser of the struct literal of ActivityFlagLoader::load:
\* the i-th field is loaded, followed by ?, and stored in the struct.
LoadField(h, w, i, bag) ==
    Let([x \in {IF FlagFields[i].required
                THEN LoadYes(h, w, FlagFields[i].name, FlagValue(i))
                ELSE Load(h, w, FlagFields[i].name, FlagValue(i))} |->
    IF x.r.kind = "Err" THEN [h |-> x.h, r |-> Err(x.r.err), flags |-> NoFlags]
    ELSE [h |-> x.h, r |-> Ok(JVoid),
          flags |-> [bag EXCEPT ![FlagFields[i].field] = x.r]]])

\* The field initialisers lo..hi of the struct literal, in the order of the
\* code: the first half of the range, then, unless a ? returned, the rest.
RECURSIVE LoadFields(_, _, _, _, _)
LoadFields(h, w, lo, hi, bag) ==
    IF lo = hi THEN LoadField(h, w, lo, bag)
    ELSE Let([x \in {LoadFields(h, w, lo, (lo + hi) \div 2, bag)} |->
         IF x.r.kind = "Err" THEN x
         ELSE LoadFields(x.h, w, (lo + hi) \div 2 + 1, hi, x.flags)])

\* ActivityFlagLoader::load.
ActivityFlagLoaderLoad(h, w) ==
    Let([intent \in {FindClass(h, w, "android/content/Intent")} |->
    IF intent.r.kind = "Err" THEN [h |-> intent.h, r |-> Err(intent.r.err), flags |-> NoFlags]
    ELSE LoadFields(intent.h, w, 1, Len(FlagFields), EmptyBag)])

\* Result::unwrap on an Err: the thread panics.
Panic(e) == [kind |-> "Panic", err |-> e, val |-> JVoid]

\* Variant of activity_flags that loads the constants on every call.
ActivityFlagsReload(h, w, cell) ==
    Let([x \in {ActivityFlagLoaderLoad(h, w)} |->
    IF x.r.kind = "Err"
    THEN [h |-> x.h, r |-> Panic(x.r.err), flags |-> NoFlags, cell |-> cell]
    ELSE [h |-> x.h, r |-> Ok(JVoid), flags |-> x.flags, cell |-> x.flags]])

\* activity_flags: FLAGS.get_or_init(|| ActivityFlagLoader(env).load().unwrap()).
\* An initialised cell is returned as it is; otherwise the closure runs, its
\* value initialises the cell and is returned; a panic of the closure
\* leaves the cell uninitialised.  The reference handed to the caller
\* (flags) and the cell afterwards are returned beside the result.
ActivityFlags(h, w, cell) ==
    IF cell # NoFlags THEN [h |-> h, r |-> Ok(JVoid), flags |-> cell, cell |-> cell] ELSE
    Let([x \in {ActivityFlagLoaderLoad(h, w)} |->
    IF x.r.kind = "Err"
    THEN [h |-> x.h, r |-> Panic(x.r.err), flags |-> NoFlags, cell |-> cell]
    ELSE [h |-> x.h, r |-> Ok(JVoid), flags |-> x.flags, cell |-> x.flags]])

\* ------------------------------------------------------------ resources.rs
ResNames == {"icon_a", "icon_b"}
ResKinds == {"drawable", "mipmap"}
ResIds   == 1..MaxVal

\* Resources.getIdentifier on the host: the identifiers it hands out for a
\* kind.  An identifier carries its resource type, so the identifiers of
\* the two kinds are different numbers.
IdsOf(kind) == {i \in ResIds : i % 2 = (IF kind = "drawable" THEN 1 ELSE 0)}

\* ResourceManager::new.
ResourceManagerNew(h, w) ==
    RunCalls(h, w, <<Step("call_method", "getResources"),
                     Step("call_method", "getPackageName")>>, 1)

\* Variant of ResourceManager::get that answers from the cache for the
\* kind "drawable" only: any other kind is looked up again and overwrites
\* the entry.
ResourceGetDrawableOnly(h, w, cache, name, kind, id) ==
    IF name \in DOMAIN cache /\ kind = "drawable"
    THEN [h |-> h, r |-> Ok(JInt(cache[name])), cache |-> cache] ELSE
    Let([n \in {HostCall(h, w, "new_string", A(name), JObject(name))} |->
    IF n.r.kind = "Err" THEN [h |-> n.h, r |-> Err(n.r.err), cache |-> cache] ELSE
    Let([k \in {HostCall(n.h, w, "new_string", A(kind), JObject(kind))} |->
    IF k.r.kind = "Err" THEN [h |-> k.h, r |-> Err(k.r.err), cache |-> cache] ELSE
    Let([c \in {HostCall(k.h, w, "call_method", Args("getIdentifier", name, 0), JInt(id))} |->
    LET val == IF c.r.kind = "Err" THEN c.r ELSE JValueI(c.r.val)
    IN  IF val.kind = "Ok"
        THEN [h |-> c.h, r |-> Ok(val.val),
              cache |-> [x \in DOMAIN cache \cup {name} |-> IF x = name THEN val.val.i ELSE cache[x]]]
        ELSE [h |-> c.h, r |-> val, cache |-> cache]])])])

\* Variant of ResourceManager::get that remembers a failed lookup as the
\* identifier 0.
ResourceGetCachesFailure(h, w, cache, name, kind, id) ==
    IF name \in DOMAIN cache THEN [h |-> h, r |-> Ok(JInt(cache[name])), cache |-> cache] ELSE
    Let([n \in {HostCall(h, w, "new_string", A(name), JObject(name))} |->
    IF n.r.kind = "Err" THEN [h |-> n.h, r |-> Err(n.r.err), cache |-> cache] ELSE
    Let([k \in {HostCall(n.h, w, "new_string", A(kind), JObject(kind))} |->
    IF k.r.kind = "Err" THEN [h |-> k.h, r |-> Err(k.r.err), cache |-> cache] ELSE
    Let([c \in {HostCall(k.h, w, "call_method", Args("getIdentifier", name, 0), JInt(id))} |->
    LET val == IF c.r.kind = "Err" THEN c.r ELSE JValueI(c.r.val)
    IN  [h |-> c.h, r |-> IF val.kind = "Ok" THEN Ok(val.val) ELSE val,
         cache |-> [x \in DOMAIN cache \cup {name} |->
                       IF x = name THEN (IF val.kind = "Ok" THEN val.val.i ELSE 0)
                       ELSE cache[x]]]])])])

\* ResourceManager::get: the new cache is returned beside the result.
ResourceGet(h, w, cache, name, kind, id) ==
    IF name \in DOMAIN cache THEN [h |-> h, r |-> Ok(JInt(cache[name])), cache |-> cache] ELSE
    Let([n \in {HostCall(h, w, "new_string", A(name), JObject(name))} |->
    IF n.r.kind = "Err" THEN [h |-> n.h, r |-> Err(n.r.err), cache |-> cache] ELSE
    Let([k \in {HostCall(n.h, w, "new_string", A(kind), JObject(kind))} |->
    IF k.r.kind = "Err" THEN [h |-> k.h, r |-> Err(k.r.err), cache |-> cache] ELSE
    Let([c \in {HostCall(k.h, w, "call_method", Args("getIdentifier", name, 0), JInt(id))} |->
    LET val == IF c.r.kind = "Err" THEN c.r ELSE JValueI(c.r.val)
    IN  IF val.kind = "Ok"
        THEN [h |-> c.h, r |-> Ok(val.val),
              cache |-> [x \in DOMAIN cache \cup {name} |-> IF x = name THEN val.val.i ELSE cache[x]]]
        ELSE [h |-> c.h, r |-> val, cache |-> cache]])])])

\* ------------------------------------------------------------ actions
\* No operation is running and the caller holds no result.
IdleRecord ==
    [op |-> "idle", arg |-> "", kind |-> "", sdk |-> 0, o |-> 0, res |-> Ok(JVoid), pre |-> NoExc,
     flags |-> NoFlags]

Idle == last = IdleRecord

Init ==
    /\ pending = NoExc
    /\ log = <<>>
    /\ last = IdleRecord
    /\ previous_resources = [x \in {} |-> 0]
    /\ compat_env = NoEnv
    /\ FLAGS = NoFlags
    /\ lifecycle = "None"
    /\ notification_manager = "None"
    /\ resource_manager = "None"

\* The operation op, called with arg (and kind, where it takes one) on a
\* host answering by w, returned x.
FinishWith(op, arg, kind, w, x) ==
    \E v \in {x} :
        /\ pending' = v.h.pending
        /\ log' = v.h.log
        /\ last' = [op |-> op, arg |-> arg, kind |-> kind, sdk |-> w.sdk, o |-> w.o,
                    res |-> v.r, pre |-> pending, flags |-> NoFlags]

Finish(op, arg, w, x) == FinishWith(op, arg, "", w, x)

\* The worlds of an operation started in the current state.
Worlds(len, probes, fallbacks) ==
    {w \in Scripts(len, probes, fallbacks) : Admissible(pending, w.script)}

\* An operation can start: the caller holds no result and has a context.
Ready == Idle /\ compat_env # NoEnv

\* CompatEnv::new: the caller holds the new context when it succeeds.
EnvNew ==
    /\ Idle
    /\ \E w \in Worlds(6, {}, {}) :
        \E x \in {CompatEnvNew(Start, w)} :
            /\ Finish("CompatEnv::new", "", w, x)
            /\ compat_env' = IF x.r.kind = "Ok" THEN x.env ELSE compat_env
    /\ UNCHANGED <<previous_resources, FLAGS, lifecycle,
                 notification_manager, resource_manager>>

\* The six probes: one ordinary call, which goes through try_do.
ProbeFindClass ==
    /\ Ready
    /\ \E w \in Worlds(1, {1}, {}) :
        Finish("try_find_class", "", w, TryFindClass(Start, w, "some/Class"))
    /\ UNCHANGED <<previous_resources, compat_env, FLAGS, lifecycle,
                 notification_manager, resource_manager>>

ProbeGetField ==
    /\ Ready
    /\ \E w \in Worlds(1, {1}, {}) :
        Finish("try_get_field", "", w, TryGetField(Start, w, "field", JInt(1)))
    /\ UNCHANGED <<previous_resources, compat_env, FLAGS, lifecycle,
                 notification_manager, resource_manager>>

ProbeGetStaticField ==
    /\ Ready
    /\ \E w \in Worlds(1, {1}, {}) :
        Finish("try_get_static_field", "", w, TryGetStaticField(Start, w, "FIELD", JInt(1)))
    /\ UNCHANGED <<previous_resources, compat_env, FLAGS, lifecycle,
                 notification_manager, resource_manager>>

ProbeCallMethod ==
    /\ Ready
    /\ \E w \in Worlds(1, {1}, {}) :
        Finish("try_call_method", "", w, TryCallMethod(Start, w, "method", JObject("ret")))
    /\ UNCHANGED <<previous_resources, compat_env, FLAGS, lifecycle,
                 notification_manager, resource_manager>>

ProbeCallStaticMethod ==
    /\ Ready
    /\ \E w \in Worlds(1, {1}, {}) :
        Finish("try_call_static_method", "", w,
               TryCallStaticMethod(Start, w, "method", JObject("ret")))
    /\ UNCHANGED <<previous_resources, compat_env, FLAGS, lifecycle,
                 notification_manager, resource_manager>>

ProbeNewObject ==
    /\ Ready
    /\ \E w \in Worlds(1, {1}, {}) :
        Finish("try_new_object", "", w, TryNewObject(Start, w, CtorSimple, JObject("obj")))
    /\ UNCHANGED <<previous_resources, compat_env, FLAGS, lifecycle,
                 notification_manager, resource_manager>>

\* The feature detector: four calls, the last three through try_do.  The
\* host's SDK_INT ranges over Vals; its threshold O, which is only compared
\* when all four calls succeed, ranges over Vals there.
FeatureDetect ==
    /\ Ready
    /\ \E w \in Worlds(4, {2, 3, 4}, {}), sdk \in Vals, o \in Vals :
        /\ (w.script # AllOk(4) => o = 0)
        /\ LET wv == [w EXCEPT !.sdk = sdk, !.o = o] IN
           Finish("notification_channel_available", "", wv,
                  NotificationChannelAvailable(Start, wv))
    /\ UNCHANGED <<previous_resources, compat_env, FLAGS, lifecycle,
                 notification_manager, resource_manager>>

\* Channel registration for a descriptor without and with a description, on
\* a host below the threshold version (the four calls of the detector) and
\* on one at or above it (the calls of the registration as well).
ChannelCfgs == {[desc |-> FALSE, importance |-> "Default"],
                [desc |-> TRUE,  importance |-> "High"]}

ChannelLen(newer) ==
    IF newer THEN 4 + Len(RegistrationCalls([desc |-> TRUE, importance |-> "Default"])) ELSE 4

RegisterChannel ==
    /\ Ready
    /\ \E newer \in BOOLEAN, cfg \in ChannelCfgs :
        \E w \in Worlds(ChannelLen(newer), {2, 3, 4}, {}) :
            LET wv == [w EXCEPT !.sdk = IF newer THEN MaxVal ELSE 0,
                                !.o   = IF newer THEN 0 ELSE MaxVal] IN
            Finish("create_notification_channel",
                   IF cfg.desc THEN "desc" ELSE "nodesc", wv,
                   CreateNotificationChannel(Start, wv, cfg))
    /\ UNCHANGED <<previous_resources, compat_env, FLAGS, lifecycle,
                 notification_manager, resource_manager>>

\* Importance::internal_value, called by the user for any importance level;
\* the host's constant ranges over Vals where both calls succeed.
ImportanceValue ==
    /\ Ready
    /\ \E self \in Importances, w \in Worlds(2, {}, {}), value \in Vals :
        /\ (w.script # AllOk(2) => value = 0)
        /\ LET wv == [w EXCEPT !.o = value] IN
           Finish("Importance::internal_value", self, wv, InternalValue(Start, wv, self))
    /\ UNCHANGED <<previous_resources, compat_env, FLAGS, lifecycle,
                 notification_manager, resource_manager>>

\* NotificationBuilder::new hands the caller a new builder when it succeeds.
BuilderNew ==
    /\ Ready
    /\ \E w \in Worlds(4, {3}, {3}) :
        \E x \in {NotificationBuilderNew(Start, w)} :
            /\ Finish("NotificationBuilder::new", "", w, x)
            /\ lifecycle' = IF x.r.kind = "Ok" THEN "Created" ELSE lifecycle
    /\ UNCHANGED <<previous_resources, compat_env, FLAGS,
                 notification_manager, resource_manager>>

\* The setters take &self and return a copy of the builder: they can be
\* called on any builder the caller holds.
BuilderSet ==
    /\ Ready
    /\ lifecycle # "None"
    /\ \E m \in Setters : \E w \in Worlds(2, {}, {}) :
        Finish("NotificationBuilder::set", m, w, Set(Start, w, m, "builder"))
    /\ UNCHANGED <<previous_resources, compat_env, FLAGS, lifecycle,
                 notification_manager, resource_manager>>

\* NotificationManager::new hands the caller a manager when it succeeds.
ManagerNew ==
    /\ Ready
    /\ \E w \in Worlds(2, {}, {}) :
        \E x \in {NotificationManagerNew(Start, w)} :
            /\ Finish("NotificationManager::new", "", w, x)
            /\ notification_manager' = IF x.r.kind = "Ok" THEN "Held"
                                       ELSE notification_manager
    /\ UNCHANGED <<previous_resources, compat_env, FLAGS, lifecycle, resource_manager>>

\* notify is a method of a NotificationManager the caller holds.  It
\* borrows the builder (&NotificationBuilder): it can be called with any
\* builder the caller holds, which is finalized and delivered when notify
\* succeeds.
ManagerNotify ==
    /\ Ready
    /\ notification_manager = "Held"
    /\ lifecycle # "None"
    /\ \E w \in Worlds(3, {1}, {1}), id \in {1, MaxVal} :
        \E x \in {Notify(Start, w, id)} :
            /\ Finish("NotificationManager::notify", "", [w EXCEPT !.sdk = id], x)
            /\ lifecycle' = IF x.r.kind = "Ok" THEN "Dispatched" ELSE lifecycle
    /\ UNCHANGED <<previous_resources, compat_env, FLAGS,
                 notification_manager, resource_manager>>

IntentCreate ==
    /\ Ready
    /\ \E w \in Worlds(4, {}, {}) :
        Finish("create_intent", "", w, CreateIntent(Start, w))
    /\ UNCHANGED <<previous_resources, compat_env, FLAGS, lifecycle,
                 notification_manager, resource_manager>>

IntentPending ==
    /\ Ready
    /\ \E w \in Worlds(2, {}, {}) :
        Finish("pending_intent", "", w, PendingIntent(Start, w))
    /\ UNCHANGED <<previous_resources, compat_env, FLAGS, lifecycle,
                 notification_manager, resource_manager>>

\* ResourceManager::new hands the caller a manager with an empty cache
\* when it succeeds.
ResourcesNew ==
    /\ Ready
    /\ \E w \in Worlds(2, {}, {}) :
        \E x \in {ResourceManagerNew(Start, w)} :
            /\ Finish("ResourceManager::new", "", w, x)
            /\ previous_resources' = IF x.r.kind = "Ok" THEN [n \in {} |-> 0]
                                     ELSE previous_resources
            /\ resource_manager' = IF x.r.kind = "Ok" THEN "Held" ELSE resource_manager
    /\ UNCHANGED <<compat_env, FLAGS, lifecycle, notification_manager>>

\* get is a method of a ResourceManager the caller holds.
ResourcesGet ==
    /\ Ready
    /\ resource_manager = "Held"
    /\ \E name \in ResNames, kind \in ResKinds : \E id \in IdsOf(kind), w \in Worlds(3, {}, {}) :
        \E x \in {ResourceGet(Start, w, previous_resources, name, kind, id)} :
        /\ FinishWith("ResourceManager::get", name, kind, [w EXCEPT !.sdk = id], x)
        /\ previous_resources' = x.cache
    /\ UNCHANGED <<compat_env, FLAGS, lifecycle, notification_manager, resource_manager>>

\* The hosts of activity_flags.  The loader issues one class lookup and
\* then one constant read per field, so call i + 1 reads the i-th field.
\* Besides the scripts with one call that does not succeed: hosts that lack
\* up to MaxAbsent of the optional constants, and hosts that lack one
\* optional constant and on which a later call does not succeed.
FlagLen == Len(FlagFields) + 1

OptionalCalls == {i + 1 : i \in {j \in DOMAIN FlagFields : ~FlagFields[j].required}}

FieldMissing == ExcOut([cls |-> CompatEnv.no_such_field_error, id |-> 1])

FlagHosts ==
    Scripts(FlagLen, 2..FlagLen, {}) \cup
    {World([k \in 1..FlagLen |-> IF k \in S THEN FieldMissing ELSE OkOut], NoFault, 0, 0) :
        S \in {T \in SUBSET OptionalCalls : Cardinality(T) <= MaxAbsent}} \cup
    UNION {{World(FailTwice(FlagLen, k, FieldMissing.exc, k2, b), NoFault, 0, 0) :
                k2 \in (k + 1)..FlagLen, b \in BadOut} : k \in OptionalCalls}

\* activity_flags(env): the caller is handed the reference, or the thread
\* panics; FLAGS is what get_or_init leaves in it.
ActivityFlagsGet ==
    /\ Ready
    /\ \E w \in {v \in FlagHosts : Admissible(pending, v.script)} :
        \E x \in {ActivityFlags(Start, w, FLAGS)} :
            /\ pending' = x.h.pending
            /\ log' = x.h.log
            /\ last' = [op |-> "activity_flags", arg |-> "", kind |-> "", sdk |-> 0, o |-> 0,
                        res |-> x.r, pre |-> pending, flags |-> x.flags]
            /\ FLAGS' = x.cell
    /\ UNCHANGED <<previous_resources, compat_env, lifecycle,
                 notification_manager, resource_manager>>

\* The caller has taken the result: the record of the operation is dropped,
\* the host's slot and the cache stay as the operation left them.
Return ==
    /\ ~Idle
    /\ last' = IdleRecord
    /\ log' = <<>>
    /\ UNCHANGED <<pending, previous_resources, compat_env, FLAGS, lifecycle,
                 notification_manager, resource_manager>>

Next ==
    \/ Return
    \/ EnvNew
    \/ ProbeFindClass
    \/ ProbeGetField
    \/ ProbeGetStaticField
    \/ ProbeCallMethod
    \/ ProbeCallStaticMethod
    \/ ProbeNewObject
    \/ FeatureDetect
    \/ RegisterChannel
    \/ ImportanceValue
    \/ BuilderNew
    \/ BuilderSet
    \/ ManagerNew
    \/ ManagerNotify
    \/ IntentCreate
    \/ IntentPending

Spec == Init /\ [][Next]_vars

\* The operations around the activity flags: a context is created, the
\* flags are fetched, and an intent is created from them.
NextFlags ==
    \/ Return
    \/ EnvNew
    \/ ActivityFlagsGet
    \/ IntentCreate

SpecFlags == Init /\ [][NextFlags]_vars

\* The operations around the resource cache: a context is created, a
\* resource manager is created from it, and identifiers are looked up.
NextResources ==
    \/ Return
    \/ EnvNew
    \/ ResourcesNew
    \/ ResourcesGet

SpecResources == Init /\ [][NextResources]_vars

TypeOK ==
    /\ pending \in Exceptions \cup {NoExc}
    /\ last.res.kind \in {"Ok", "Err", "Some", "None", "Panic"}
    /\ DOMAIN FLAGS \in {{}, FlagNames}
    /\ last.flags \in {NoFlags, FLAGS}
    /\ DOMAIN previous_resources \subseteq ResNames
    /\ compat_env \in {NoEnv, CompatEnv}
    /\ lifecycle \in {"None", "Created", "Dispatched"}
    /\ notification_manager \in {"None", "Held"}
    /\ resource_manager \in {"None", "Held"}
    /\ resource_manager = "None" => previous_resources = [x \in {} |-> 0]

\* =================================================================
\* Properties
\* =================================================================
ProbeOps == {"try_find_class", "try_get_field", "try_get_static_field",
             "try_call_method", "try_call_static_method", "try_new_object"}

\* The ignore set each derived probe is documented to use.
DocumentedIgnore(op) ==
    IF op = "try_find_class"
    THEN {"java/lang/ClassNotFoundException", "java/lang/NoClassDefFoundError"}
    ELSE IF op \in {"try_get_field", "try_get_static_field"}
    THEN {"java/lang/NoSuchFieldException", "java/lang/NoSuchFieldError"}
    ELSE {"java/lang/NoSuchMethodException", "java/lang/NoSuchMethodError"}

\* The value the host hands back when a probe's operation succeeds.
ProbeValue(op) ==
    CASE op = "try_find_class"         -> JObject("some/Class")
      [] op = "try_get_field"          -> JInt(1)
      [] op = "try_get_static_field"   -> JInt(1)
      [] op = "try_call_method"        -> JObject("ret")
      [] op = "try_call_static_method" -> JObject("ret")
      [] op = "try_new_object"         -> JObject("obj")

\* A probe has returned; its operation is the first call of the log.
ProbeDone == last.op \in ProbeOps

\* The probe's operation failed with the exception-pending error; the
\* exception then pending is log[1].after.
ProbeRaised == ProbeDone /\ log[1].res = "exc"

Matches(exc, classes) == \E c \in classes : InstanceOf(exc, c)

Calls(name) == {i \in DOMAIN log : log[i].call = name}

\* The inspection calls that returned an error.
InspectionErrors == {i \in DOMAIN log : log[i].call \in InspectionCalls /\ log[i].res = "err"}

\* C1 as stated: a probe whose operation raised an exception that is an
\* instance of an ignore-set entry returns Absent with the slot empty.
C1_AbsentAndClear_AsStated ==
    (ProbeRaised /\ Matches(log[1].after, DocumentedIgnore(last.op)))
        => (last.res = Absent /\ pending = NoExc)

\* C1 (amended): a probe whose operation raised an exception that is an
\* instance of an ignore-set entry returns Absent with the slot empty,
\* unless one of the inspection calls it makes (exception_occurred,
\* exception_clear, is_instance_of) itself errors: then it returns that
\* error as Failure.
C1_AbsentAndClear ==
    (ProbeRaised /\ Matches(log[1].after, DocumentedIgnore(last.op)))
        => IF InspectionErrors = {}
           THEN last.res = Absent /\ pending = NoExc
           ELSE last.res = Err(log[Len(log)].ret.err) /\ Len(log) \in InspectionErrors

\* C1 witness: a probe found Absent through the second ignore-set entry.
C1_Witness ==
    /\ ProbeRaised /\ last.res = Absent /\ pending = NoExc
    /\ Len(log) = 5 /\ log[4].res = "false" /\ log[5].res = "true"

\* C2 as stated: after any probe returns, the slot is empty.
C2_AlwaysClear_AsStated == ProbeDone => pending = NoExc

\* C2 (amended): after a probe returns Success or Absent the slot is empty;
\* after a Failure with the exception-pending error it is not: it holds the
\* exception that was pending, re-raised by the probe.
C2_ClearUnlessRethrown ==
    ProbeDone =>
        /\ last.res.kind \in {"Some", "None"} => pending = NoExc
        /\ (last.res = Err("JavaException"))
              => (pending # NoExc /\ pending = log[1].after /\ log[Len(log)].call = "throw")

\* C2 witness: a probe returned Failure after re-raising, the slot is full.
C2_Witness ==
    /\ ProbeRaised /\ last.res = Err("JavaException")
    /\ pending # NoExc /\ Calls("exception_clear") # {}

\* C3: a probe whose operation raised an exception that matches no
\* ignore-set entry returns Failure, and whatever it re-raises is the very
\* exception object that was pending; with no inspection call erroring it
\* does re-raise it, once, and returns the exception-pending error.
C3_RethrowsSameObject ==
    (ProbeRaised /\ ~Matches(log[1].after, DocumentedIgnore(last.op)))
        => /\ last.res.kind = "Err"
           /\ \A i \in Calls("throw") : log[i].exc = log[1].after
           /\ InspectionErrors = {}
                => /\ Cardinality(Calls("throw")) = 1
                   /\ pending = log[1].after
                   /\ last.res = Err("JavaException")

\* C3 witness: an exception with identity 2 was pending and was re-raised.
C3_Witness ==
    /\ ProbeRaised /\ log[1].after.id = NumIds
    /\ Calls("throw") # {} /\ pending = log[1].after

\* C4 as stated: no call other than exception_occurred / exception_clear is
\* ever issued while the slot holds an exception.
C4_NoCallWhilePending_AsStated ==
    \A i \in DOMAIN log : log[i].pend => log[i].call \in {"exception_occurred", "exception_clear"}

\* C4 (amended): within one operation that is started with the slot empty,
\* no call other than exception_occurred / exception_clear is issued while
\* the slot holds an exception.  (An operation that ends in Failure may
\* leave the exception pending for its caller.)
C4_NoCallWhilePending ==
    last.pre = NoExc => C4_NoCallWhilePending_AsStated

\* C4 witness: an operation started with the slot empty met an exception
\* and went on to issue further calls after clearing it.
C4_Witness ==
    /\ last.pre = NoExc /\ ~Idle
    /\ \E i \in Calls("exception_clear") : log[i].res = "ok" /\ i < Len(log)
    /\ log[Len(log)].call \notin InspectionCalls

\* C5: a probe whose operation succeeds returns Success(value), one whose
\* operation fails with another error than exception-pending returns that
\* error; in both cases it issues no inspection call and the slot is as it
\* was.
C5_NoInspectionUnlessPending ==
    (ProbeDone /\ log[1].res # "exc")
        => /\ log[1].res = "ok"  => last.res = Some(ProbeValue(last.op))
           /\ log[1].res = "err" => last.res = Err(log[1].ret.err) /\ log[1].ret.err \in OtherErrors
           /\ Len(log) = 1
           /\ pending = last.pre

\* C5 witness: a probe returned an error other than exception-pending
\* while an exception was pending.
C5_Witness ==
    /\ ProbeDone /\ log[1].res = "err" /\ last.res.kind = "Err" /\ pending # NoExc

\* C6: each derived probe yields Absent exactly for the exceptions of its
\* own ignore set, and tests against the entries of that set only.
C6_FixedIgnoreSets ==
    ProbeRaised =>
        /\ last.res = Absent => Matches(log[1].after, DocumentedIgnore(last.op))
        /\ \A i \in Calls("is_instance_of") : log[i].arg \in DocumentedIgnore(last.op)
        /\ (InspectionErrors = {} /\ Matches(log[1].after, DocumentedIgnore(last.op)))
              => last.res = Absent

\* C6 witness: a class lookup that met a field-not-found exception failed.
C6_Witness ==
    /\ last.op = "try_find_class" /\ log[1].res = "exc"
    /\ log[1].after.cls = "java/lang/NoSuchFieldException"
    /\ last.res = Err("JavaException")

\* ---------------------------------------------------- selector sites
\* The two selector sites have returned: NotificationBuilder::new, and
\* NotificationBuilder::build as run by NotificationManager::notify.
SelectorDone == last.op \in {"NotificationBuilder::new", "NotificationManager::notify"}

RichCalls ==
    {i \in DOMAIN log : \/ log[i].call = "new_object" /\ log[i].arg = CtorRich
                        \/ log[i].call = "call_method" /\ log[i].arg = "build"}

SimpleCalls ==
    {i \in DOMAIN log : \/ log[i].call = "new_object" /\ log[i].arg = CtorSimple
                        \/ log[i].call = "call_method" /\ log[i].arg = "getNotification"}

DeliveryCalls == {i \in DOMAIN log : log[i].call = "call_method" /\ log[i].arg = "notify"}

\* The probe around call i reported Absent: the call raised an exception
\* and an instance test against the ignore set answered true.
ReportedAbsent(i) ==
    /\ log[i].res = "exc"
    /\ \E j \in Calls("is_instance_of") : j > i /\ log[j].res = "true"

\* The result ret of the chosen path is the result of the selector: of new
\* itself, and of build as notify uses it (a failure is returned without a
\* delivery, an object is the one delivered).
SelectorResult(ret) ==
    IF last.op = "NotificationBuilder::new" THEN last.res = ret
    ELSE IF ret.kind = "Err" THEN last.res = ret /\ DeliveryCalls = {}
    ELSE \E d \in DeliveryCalls : DeliveryCalls = {d} /\ log[d].obj = ret.val.o

\* C7: when the richer-path probe reports Absent the simpler path is called
\* exactly once, after it, and its result is the selector's result; the
\* richer path is never called more than once.
C7_FallbackOnceOnAbsent ==
    SelectorDone =>
        /\ Cardinality(RichCalls) <= 1
        /\ \A i \in RichCalls : ReportedAbsent(i) =>
              /\ Cardinality(SimpleCalls) = 1
              /\ \A j \in SimpleCalls : j > i /\ SelectorResult(log[j].ret)

\* C7 witness: build() was absent, getNotification() then failed, and
\* notify returned that failure.
C7_Witness ==
    /\ last.op = "NotificationManager::notify"
    /\ \E i \in RichCalls : ReportedAbsent(i)
    /\ \E j \in SimpleCalls : log[j].res = "err" /\ last.res = log[j].ret

\* The error a failed probe around call i returns.
ProbeFailure(i) ==
    IF log[i].res = "err" THEN log[i].ret.err
    ELSE IF InspectionErrors # {} THEN log[Len(log)].ret.err
    ELSE "JavaException"

\* C8: the simpler path is called if and only if the richer-path probe
\* reported Absent; a Success of the richer path is the selector's result,
\* a Failure is returned as it is, and in neither case is the simpler path
\* (or any other ordinary call, after a Failure) issued.
C8_FallbackOnlyOnAbsent ==
    SelectorDone =>
        /\ SimpleCalls # {} => RichCalls # {}
        /\ \A i \in RichCalls :
              /\ SimpleCalls # {} <=> ReportedAbsent(i)
              /\ log[i].res = "ok" => SelectorResult(log[i].ret)
              /\ (log[i].res # "ok" /\ ~ReportedAbsent(i))
                    => /\ last.res = Err(ProbeFailure(i))
                       /\ \A j \in DOMAIN log : j > i => log[j].call \in InspectionCalls

\* C8 witness: the richer constructor failed with an exception that is not
\* a method-absent signal; new returned the failure without falling back.
C8_Witness ==
    /\ last.op = "NotificationBuilder::new"
    /\ \E i \in RichCalls : log[i].res = "exc" /\ ~ReportedAbsent(i)
                            /\ log[i].after.cls = "java/lang/RuntimeException"
    /\ last.res = Err("JavaException") /\ SimpleCalls = {}

\* ---------------------------------------------------- feature detector
DetectorDone == last.op = "notification_channel_available"

\* The version-codes class probe reported Absent.
CodesAbsent ==
    /\ DetectorDone /\ Len(log) >= 2
    /\ log[2].call = "find_class" /\ log[2].arg = "android/os/Build$VERSION_CODES"
    /\ ReportedAbsent(2)

\* C9: if the version-codes class probe reports Absent, the detector
\* returns false, raising nothing, whatever the running version is, and
\* reads neither SDK_INT nor the threshold constant.
C9_CodesAbsentIsFalse ==
    CodesAbsent =>
        /\ last.res = Ok(Bool(FALSE))
        /\ pending = NoExc
        /\ Calls("get_static_field") = {}

\* C9 witness: the class was absent on a host whose running version is
\* above the threshold.
C9_Witness ==
    CodesAbsent /\ last.sdk = MaxVal /\ last.sdk >= last.o /\ last.res = Ok(Bool(FALSE))

\* C10 as stated: if the lookup of the version-info class fails with a
\* class-not-found exception, the detector returns false and leaves no
\* pending exception behind.
C10_VersionInfoAbsentIsFalse ==
    (/\ DetectorDone /\ last.pre = NoExc /\ log[1].res = "exc"
     /\ Matches(log[1].after, DocumentedIgnore("try_find_class")))
        => (last.res = Ok(Bool(FALSE)) /\ pending = NoExc)

\* Both classes exist: the two class lookups of the detector succeeded.
ClassesExist ==
    /\ DetectorDone /\ Len(log) >= 2
    /\ log[1].res = "ok" /\ log[2].res = "ok"

\* The probe of the running-version constant (call 3) / of the threshold
\* constant (call 4) found the constant, or reported it Absent.
ConstantPresent(i) == Len(log) >= i /\ log[i].call = "get_static_field" /\ log[i].res = "ok"
ConstantAbsent(i)  == Len(log) >= i /\ log[i].call = "get_static_field" /\ ReportedAbsent(i)

\* C11: when the version-info and version-codes classes both exist, the
\* detector returns true exactly when the running-version constant and the
\* threshold constant are both present and running_version >=
\* threshold_value (and then false when it is below); if either constant is
\* Absent it returns false with the slot empty.
C11_TrueIffPresentAndAtLeast ==
    ClassesExist =>
        /\ last.res = Ok(Bool(TRUE))
              <=> (ConstantPresent(3) /\ ConstantPresent(4) /\ last.sdk >= last.o)
        /\ (ConstantPresent(3) /\ ConstantPresent(4)) => last.res = Ok(Bool(last.sdk >= last.o))
        /\ (ConstantAbsent(3) \/ ConstantAbsent(4))
              => (last.res = Ok(Bool(FALSE)) /\ pending = NoExc)
        /\ ConstantAbsent(3) => Cardinality(Calls("get_static_field")) = 1

\* C11 witness: both constants are present and the running version equals
\* the threshold: the detector returned true.
C11_Witness ==
    /\ ClassesExist /\ ConstantPresent(3) /\ ConstantPresent(4)
    /\ last.sdk = MaxVal /\ last.o = MaxVal /\ last.res = Ok(Bool(TRUE))

\* A second case of C11: the threshold constant is Absent on a host whose
\* running version is the highest; the detector returned false.
C11_ThresholdAbsentReached ==
    /\ ClassesExist /\ ConstantPresent(3) /\ ConstantAbsent(4)
    /\ last.sdk = MaxVal /\ last.res = Ok(Bool(FALSE))

\* ---------------------------------------------------- resource cache
\* This step is a ResourceManager::get(name, ...) returning.
GetReturns(name) ==
    Idle /\ last'.op = "ResourceManager::get" /\ last'.arg = name

\* This step creates a new ResourceManager instance (with an empty cache).
NewInstance == Idle /\ last'.op = "ResourceManager::new" /\ last'.res.kind = "Ok"

\* C12: on one ResourceManager instance, a get that succeeds with v leaves v
\* cached for its name; a name that is cached stays cached with the same
\* value whatever operation runs, and every get for it, of whatever kind,
\* returns that value and issues no host call.
C12_CachedNameIsFinal ==
    [][ /\ \A n \in ResNames :
             (GetReturns(n) /\ last'.res.kind = "Ok")
                => (n \in DOMAIN previous_resources' /\ previous_resources'[n] = last'.res.val.i)
        /\ \A n \in DOMAIN previous_resources :
             \/ NewInstance
             \/ /\ n \in DOMAIN previous_resources'
                /\ previous_resources'[n] = previous_resources[n]
                /\ GetReturns(n) => (last'.res = Ok(JInt(previous_resources[n])) /\ log' = <<>>)
      ]_vars

\* C12 witness: a get of kind "mipmap" returned, without a host call, an
\* identifier that the host hands out for the kind "drawable" only.
C12_Witness ==
    /\ last.op = "ResourceManager::get" /\ last.kind = "mipmap" /\ log = <<>>
    /\ last.res.kind = "Ok" /\ last.res.val.i \in IdsOf("drawable")
    /\ last.res.val.i \notin IdsOf("mipmap")
    /\ previous_resources[last.arg] = last.res.val.i

\* The error of the last host call of the operation that just returned.
LastCallError == Err(log'[Len(log')].ret.err)

\* C13: a get whose host lookup fails returns that failure and leaves the
\* cache exactly as it was, its name still not cached; and a get for a name
\* that is not cached performs the host lookup, starting with the
\* conversion of the name.
C13_FailureNotCached ==
    [][ \A n \in ResNames :
          /\ (GetReturns(n) /\ last'.res.kind = "Err")
                => /\ previous_resources' = previous_resources
                   /\ n \notin DOMAIN previous_resources'
                   /\ log' # <<>> /\ last'.res = LastCallError
          /\ (GetReturns(n) /\ n \notin DOMAIN previous_resources)
                => /\ log' # <<>>
                   /\ log'[1].call = "new_string" /\ log'[1].arg = n
      ]_vars

\* C13 witness: the identifier lookup of a get failed while another name
\* was cached; the failed name is not in the cache.
C13_Witness ==
    /\ last.op = "ResourceManager::get" /\ last.res.kind = "Err"
    /\ Len(log) = 3 /\ log[3].arg = "getIdentifier"
    /\ last.arg \notin DOMAIN previous_resources /\ DOMAIN previous_resources # {}

\* ---------------------------------------------------- channel registration
ChannelDone == last.op = "create_notification_channel"

\* The calls of the feature detector: the two class lookups and the two
\* constant reads.
DetectorCalls ==
    {i \in DOMAIN log :
        \/ log[i].call = "find_class"
           /\ log[i].arg \in {"android/os/Build$VERSION", "android/os/Build$VERSION_CODES"}
        \/ log[i].call = "get_static_field" /\ log[i].arg \in {"SDK_INT", "O"}}

\* The ordinary calls that are not the detector's: channel construction,
\* service resolution and registration.
RegistrationCallsIssued ==
    {i \in DOMAIN log : log[i].call \notin InspectionCalls} \ DetectorCalls

\* The detector, as run by create_notification_channel, answered false: a
\* class or constant it probes was reported Absent, or both constants were
\* read and the running version is below the threshold.
DetectorUnavailable ==
    /\ ChannelDone /\ Len(log) >= 2 /\ log[1].res = "ok"
    /\ \/ ReportedAbsent(2)
       \/ /\ log[2].res = "ok" /\ Len(log) >= 3
          /\ \/ ReportedAbsent(3)
             \/ /\ log[3].res = "ok" /\ Len(log) >= 4
                /\ \/ ReportedAbsent(4)
                   \/ log[4].res = "ok" /\ last.sdk < last.o

\* C14: when the detector reports the channel feature unavailable,
\* create_notification_channel returns success and issues no call to the
\* host besides the detector's, for every channel descriptor.
C14_UnavailableIsNoOp ==
    DetectorUnavailable =>
        /\ last.res = Ok(JVoid)
        /\ RegistrationCallsIssued = {}
        /\ pending = NoExc

\* C14 witness: a descriptor without description on a host whose running
\* version is below the threshold: success after the detector's four calls.
C14_Witness ==
    /\ DetectorUnavailable /\ last.arg = "nodesc"
    /\ Len(log) = 4 /\ log[4].res = "ok" /\ last.sdk < last.o
    /\ last.res = Ok(JVoid)

\* A second case of C14: a descriptor with description on a host without
\* the version-codes class.
C14_CodesAbsentReached ==
    DetectorUnavailable /\ last.arg = "desc" /\ ReportedAbsent(2) /\ last.res = Ok(JVoid)

\* ---------------------------------------------------- dispatch
NotifyDone == last.op = "NotificationManager::notify"

\* The finalize calls: build() and getNotification().
FinalizeCalls ==
    {i \in DOMAIN log : log[i].call = "call_method" /\ log[i].arg \in {"build", "getNotification"}}

\* C15: a successful notify(builder, id) issues exactly one delivery call,
\* as its last call; it carries the caller's id and the object that the
\* finalize step returned, whether that was build() or, build() being
\* absent, getNotification().
C15_OneDelivery ==
    (NotifyDone /\ last.res.kind = "Ok") =>
        /\ Cardinality(DeliveryCalls) = 1
        /\ \A d \in DeliveryCalls :
              /\ d = Len(log) /\ log[d].res = "ok"
              /\ log[d].num = last.sdk
              /\ \E f \in FinalizeCalls :
                    /\ f < d /\ log[f].res = "ok" /\ log[d].obj = log[f].ret.val.o
                    /\ \A g \in FinalizeCalls : g <= f
                    /\ log[f].arg = "getNotification" <=> (\E g \in RichCalls : ReportedAbsent(g))

\* C15 witness: on a host without build(), notify delivered the object of
\* getNotification() under the caller's id.
C15_Witness ==
    /\ NotifyDone /\ last.res = Ok(JVoid) /\ last.sdk = MaxVal
    /\ \E g \in RichCalls : ReportedAbsent(g)
    /\ \E d \in DeliveryCalls : log[d].obj = "notification_get" /\ log[d].num = MaxVal

\* A second case of C15: on a host with build(), notify delivered the
\* object of build().
C15_BuildReached ==
    /\ NotifyDone /\ last.res = Ok(JVoid) /\ Len(log) = 2
    /\ log[2].obj = "notification_build" /\ log[2].num = last.sdk

\* ---------------------------------------------------- builder lifecycle
\* This step is a setter returning successfully: its call reached the
\* builder object on the host.
SetterTakesEffect ==
    Idle /\ last'.op = "NotificationBuilder::set" /\ last'.res.kind = "Ok"

\* This step is a notify that issued a finalize call for the builder.
FinalizedAgain ==
    /\ Idle /\ last'.op = "NotificationManager::notify"
    /\ \E i \in DOMAIN log' :
          log'[i].call = "call_method" /\ log'[i].arg \in {"build", "getNotification", "notify"}

\* C16 as stated: once the builder has been finalized and dispatched by
\* notify, no setter call takes effect on it and it is not finalized or
\* dispatched a second time.
C16_LinearLifecycle ==
    [][ lifecycle = "Dispatched" => (~SetterTakesEffect /\ ~FinalizedAgain) ]_vars

\* ---------------------------------------------------- execution context
EnvNewDone == last.op = "CompatEnv::new"

\* The lookups of signal type c in the log.
Resolutions(c) == {i \in DOMAIN log : log[i].call = "find_class" /\ log[i].arg = c}

\* C17, the state part.  After CompatEnv::new returns: a success has
\* resolved each of the six signal types exactly once, by six successful
\* lookups, and the context holds the six handles; a failure is the error
\* of the lookup that failed, which is the last call, and every signal type
\* was looked up at most once.  After any other operation: none of the six
\* signal types has been looked up.
C17_ResolvedOnce ==
    /\ (EnvNewDone /\ last.res.kind = "Ok")
          => /\ \A c \in SignalClasses : Cardinality(Resolutions(c)) = 1
             /\ Len(log) = 6 /\ \A i \in DOMAIN log : log[i].res = "ok"
             /\ compat_env = CompatEnv
    /\ (EnvNewDone /\ last.res.kind = "Err")
          => /\ \A c \in SignalClasses : Cardinality(Resolutions(c)) <= 1
             /\ log # <<>> /\ log[Len(log)].res # "ok"
             /\ last.res = log[Len(log)].ret
             /\ \A i \in 1..(Len(log) - 1) : log[i].res = "ok"
    /\ (~EnvNewDone) => \A c \in SignalClasses : Resolutions(c) = {}

\* C17: CompatEnv::new resolves each of the six signal types exactly once;
\* if resolving any of them fails, creation fails with that error and no
\* context is produced (the caller's context is what it was); no other
\* operation of the layer re-resolves a signal type, and none changes the
\* six handles of the context.
C17_SignalTypesResolvedOnce ==
    [][ /\ C17_ResolvedOnce'
        /\ (last'.op = "CompatEnv::new" /\ last'.res.kind = "Err") => compat_env' = compat_env
        /\ compat_env' # compat_env
              => (last'.op = "CompatEnv::new" /\ last'.res.kind = "Ok" /\ compat_env' = CompatEnv)
      ]_vars

\* C17 witness: the fourth lookup of CompatEnv::new raised an exception;
\* creation failed and the caller has no context.
C17_Witness ==
    /\ EnvNewDone /\ last.res = Err("JavaException")
    /\ Len(log) = 4 /\ log[4].res = "exc" /\ log[4].arg = "java/lang/NoClassDefFoundError"
    /\ compat_env = NoEnv

\* ---------------------------------------------------- activity flags
FlagsDone == last.op = "activity_flags"

RequiredNames == {FlagFields[i].name : i \in {j \in DOMAIN FlagFields : FlagFields[j].required}}

\* The probe of an "always present" constant reported Absent.
RequiredAbsent ==
    /\ FlagsDone
    /\ \E i \in Calls("get_static_field") : log[i].arg \in RequiredNames /\ ReportedAbsent(i)

\* C18: if the probe of an "always present" constant returns Absent during
\* the load, activity_flags panics (on the field-not-found error made of
\* the absence); the caller is handed no constant bag, FLAGS stays
\* uninitialised, and the load reads no further constant.
C18_RequiredAbsentPanics ==
    RequiredAbsent =>
        /\ last.res = Panic("FieldNotFound")
        /\ last.flags = NoFlags
        /\ FLAGS = NoFlags
        /\ log[Len(log)].call = "is_instance_of" /\ log[Len(log)].res = "true"
        /\ pending = NoExc

\* C18 witness: on a host lacking an optional constant, a later "always
\* present" constant was absent as well: the load had filled fields before
\* it panicked.
C18_Witness ==
    /\ RequiredAbsent /\ last.res.kind = "Panic" /\ FLAGS = NoFlags
    /\ \E i \in Calls("get_static_field") :
          log[i].arg = "FLAG_ACTIVITY_CLEAR_TASK" /\ log[i].res = "exc"
    /\ \E i \in Calls("get_static_field") :
          log[i].arg = "FLAG_ACTIVITY_NEW_TASK" /\ log[i].res = "exc"

\* This step is activity_flags returning (or panicking).
FlagsReturns == Idle /\ last'.op = "activity_flags"

\* C19: FLAGS is populated at most once.  The first activity_flags call
\* that completes initialises it with the bag it returns; from then on
\* FLAGS never changes, whatever operation runs, and every activity_flags
\* call returns that bag and issues no host call.
C19_PopulatedOnce ==
    [][ /\ (FlagsReturns /\ last'.res.kind = "Ok")
              => (FLAGS' # NoFlags /\ last'.flags = FLAGS')
        /\ (FlagsReturns /\ last'.res.kind # "Ok") => FLAGS' = FLAGS
        /\ FLAGS # NoFlags
              => /\ FLAGS' = FLAGS
                 /\ FlagsReturns => (last'.res = Ok(JVoid) /\ last'.flags = FLAGS /\ log' = <<>>)
      ]_vars

\* C19 witness: activity_flags was called while an exception was pending
\* (any host call would have failed) and returned the bag of a host that
\* lacks two optional constants.
C19_Witness ==
    /\ FlagsDone /\ last.res = Ok(JVoid) /\ log = <<>> /\ pending # NoExc
    /\ last.flags = FLAGS /\ FLAGS # NoFlags
    /\ Cardinality({f \in FlagNames : FLAGS[f] = Absent}) = 2
    /\ FLAGS["new_task"] = Some(JInt(12))

\* ---------------------------------------------------- order within a probe
\* The ignore set of each derived probe in the order it is documented.
IgnoreOrder(op) ==
    IF op = "try_find_class"
    THEN <<"java/lang/ClassNotFoundException", "java/lang/NoClassDefFoundError">>
    ELSE IF op \in {"try_get_field", "try_get_static_field"}
    THEN <<"java/lang/NoSuchFieldException", "java/lang/NoSuchFieldError">>
    ELSE <<"java/lang/NoSuchMethodException", "java/lang/NoSuchMethodError">>

\* The inspection call expected at position i of the log (the operation
\* being call 1): fetch, clear, one test per ignore-set entry, re-raise.
ExpectedCall(op, i) ==
    IF i = 2 THEN "exception_occurred"
    ELSE IF i = 3 THEN "exception_clear"
    ELSE IF i <= 3 + Len(IgnoreOrder(op)) THEN "is_instance_of"
    ELSE "throw"

\* C20: in a probe whose operation failed with the exception-pending
\* error, the calls that follow the operation are, in this order: the fetch
\* of the pending exception, the clear, the instance tests in ignore-set
\* order up to the first that matches, and the re-raise only after every
\* test answered false.  The sequence stops early only behind an inspection
\* call that errored.  Nothing but the fetch lies between the fault and the
\* clear, and every instance test runs with the slot empty.
C20_InspectionOrder ==
    ProbeRaised =>
        /\ Len(log) >= 2 /\ Len(log) <= 4 + Len(IgnoreOrder(last.op))
        /\ \A i \in 2..Len(log) :
              /\ log[i].call = ExpectedCall(last.op, i)
              /\ log[i].call = "is_instance_of"
                    => (log[i].arg = IgnoreOrder(last.op)[i - 3] /\ ~log[i].pend
                        /\ log[i].exc = log[1].after)
              /\ i < Len(log) => log[i].res \in {"ok", "false"}
        /\ log[Len(log)].res \in {"ok", "false"}
              => log[Len(log)].call = "throw"
        /\ \A i \in Calls("exception_clear") : i = 3 /\ log[i - 1].call = "exception_occurred"

\* C20 witness: an exception that matches the second entry only: fetch,
\* clear, a test answering false, a test answering true, no re-raise.
C20_Witness ==
    /\ ProbeRaised /\ Len(log) = 5
    /\ log[2].call = "exception_occurred" /\ log[3].call = "exception_clear"
    /\ log[4].call = "is_instance_of" /\ log[4].res = "false" /\ ~log[4].pend
    /\ log[5].call = "is_instance_of" /\ log[5].res = "true" /\ ~log[5].pend
    /\ log[4].arg = IgnoreOrder(last.op)[1] /\ log[5].arg = IgnoreOrder(last.op)[2]
    /\ Calls("throw") = {}

\* A second case of C20: no entry matches and the exception is re-raised
\* as the sixth call.
C20_RethrowReached ==
    /\ ProbeRaised /\ Len(log) = 6 /\ log[6].call = "throw" /\ log[6].res = "ok"
    /\ log[4].res = "false" /\ log[5].res = "false"

\* ---------------------------------------------------- clearing the slot
\* C21 as stated: whenever a probe's operation failed with the
\* exception-pending error, exception_clear is invoked before the probe
\* returns, also when fetching the pending exception object
\* (exception_occurred) itself fails.
C21_ClearAlwaysInvoked ==
    ProbeRaised => Calls("exception_clear") # {}

\* ---------------------------------------------------- detector failures
\* The detector has run: on its own, or as the gate of
\* create_notification_channel.
DetectorRan == DetectorDone \/ ChannelDone

\* The detector's three probes: the version-codes class lookup and the
\* reads of the running version and of the threshold.
DetectorProbes ==
    {i \in DetectorCalls : log[i].arg \in {"android/os/Build$VERSION_CODES", "SDK_INT", "O"}}

\* The probe around call i ended in Failure: its call did not succeed and
\* it did not report Absent.
ProbeFailed(i) == log[i].res # "ok" /\ ~ReportedAbsent(i)

\* C22: a Failure of the version-codes class probe, the running-version
\* probe or the threshold probe is the detector's result, never false; and
\* create_notification_channel returns that Failure without issuing any
\* registration call.
C22_DetectorFailurePropagates ==
    DetectorRan =>
        \A i \in DetectorProbes : ProbeFailed(i) =>
            /\ last.res = Err(ProbeFailure(i))
            /\ last.res.kind = "Err"
            /\ RegistrationCallsIssued = {}
            /\ \A j \in DOMAIN log : j > i => log[j].call \in InspectionCalls

\* C22 witness: on a host at the threshold version, the threshold probe
\* raised an exception that is not a field-absent signal;
\* create_notification_channel returned the Failure and registered nothing.
C22_Witness ==
    /\ ChannelDone /\ last.sdk >= last.o
    /\ \E i \in DetectorProbes :
          /\ log[i].arg = "O" /\ ProbeFailed(i)
          /\ log[i].res = "exc" /\ log[i].after.cls = "java/lang/RuntimeException"
    /\ last.res = Err("JavaException") /\ RegistrationCallsIssued = {}

\* A second case of C22: the detector on its own, the running-version probe
\* failed with an error other than the exception-pending one.
C22_DetectorAloneReached ==
    /\ DetectorDone
    /\ \E i \in DetectorProbes : log[i].arg = "SDK_INT" /\ log[i].res = "err"
    /\ last.res.kind = "Err" /\ last.res.err \in OtherErrors

\* A third case of C22: the version-codes class probe failed because an
\* inspection call errored on an exception of the ignore set.
C22_InspectionFailureReached ==
    /\ ChannelDone /\ InspectionErrors # {}
    /\ \E i \in DetectorProbes :
          /\ log[i].arg = "android/os/Build$VERSION_CODES" /\ log[i].res = "exc"
          /\ Matches(log[i].after, DocumentedIgnore("try_find_class"))
    /\ last.res.kind = "Err"

\* ---------------------------------------------------- finalize failures
\* The finalize step ended in Failure at call i: build() failed through the
\* probe for a reason other than Absent, or the fallback getNotification()
\* failed.
FinalizeFailed(i) ==
    /\ i \in FinalizeCalls
    /\ IF log[i].arg = "build" THEN ProbeFailed(i) ELSE log[i].res # "ok"

\* The Failure of the finalize step that failed at call i.
FinalizeFailure(i) ==
    IF log[i].arg = "build" THEN Err(ProbeFailure(i)) ELSE Err(log[i].ret.err)

\* C23: if the finalize step of notify ends in Failure, notify returns that
\* Failure and issues no delivery call (and no ordinary call at all after
\* the failed one).
C23_FinalizeFailureNoDelivery ==
    NotifyDone =>
        \A i \in DOMAIN log : FinalizeFailed(i) =>
            /\ last.res = FinalizeFailure(i)
            /\ DeliveryCalls = {}
            /\ \A j \in DOMAIN log : j > i => log[j].call \in InspectionCalls

\* C23 witness: build() was absent and the fallback getNotification()
\* raised an exception; notify returned the exception-pending error,
\* delivered nothing and left the exception pending.
C23_Witness ==
    /\ NotifyDone /\ DeliveryCalls = {}
    /\ \E g \in RichCalls : ReportedAbsent(g)
    /\ \E i \in FinalizeCalls :
          /\ log[i].arg = "getNotification" /\ FinalizeFailed(i) /\ log[i].res = "exc"
          /\ pending = log[i].after
    /\ last.res = Err("JavaException")

\* A second case of C23: build() raised an exception that is not a
\* method-absent signal.
C23_BuildFailureReached ==
    /\ NotifyDone /\ DeliveryCalls = {} /\ SimpleCalls = {}
    /\ \E i \in FinalizeCalls :
          /\ log[i].arg = "build" /\ FinalizeFailed(i)
          /\ log[i].res = "exc" /\ log[i].after.cls = "java/lang/RuntimeException"
    /\ last.res = Err("JavaException")

\* ---------------------------------------------------- failed instance test
\* The instance tests of the last operation that errored.
FailedTests == {i \in Calls("is_instance_of") : log[i].res = "err"}

\* C24: if an is-instance-of test errors while a probe classifies the
\* exception it fetched, the probe returns that error as Failure; the test
\* is its last call, so the exception is not re-raised, and the slot, which
\* was cleared before the classification, is empty: the original exception
\* is lost to the caller.
C24_TestErrorLosesException ==
    ProbeDone =>
        \A i \in FailedTests :
            /\ last.res = Err(log[i].ret.err)
            /\ last.res.err # "JavaException"
            /\ i = Len(log)
            /\ Calls("throw") = {}
            /\ pending = NoExc
            /\ \E c \in Calls("exception_clear") : c < i /\ log[c].res = "ok"

\* C24 witness: a probe's operation raised an exception that is not an
\* instance of the first ignore-set entry, and the second test errored: the
\* probe returned the test's error and the raised exception is gone.
C24_Witness ==
    /\ ProbeRaised /\ log[1].after # NoExc /\ pending = NoExc
    /\ Len(log) = 5 /\ log[4].res = "false" /\ 5 \in FailedTests
    /\ last.res = Err(log[5].ret.err) /\ Calls("throw") = {}

\* A second case of C24: the first test errored, on an exception that no
\* ignore-set entry matches.
C24_FirstTestReached ==
    /\ ProbeRaised /\ ~Matches(log[1].after, DocumentedIgnore(last.op))
    /\ Len(log) = 4 /\ 4 \in FailedTests /\ pending = NoExc
====
